---- MODULE Spec2Model ----
(***************************************************************************)
(* Drip-scheduling worker and control surface of src/app.py.               *)
(*                                                                         *)
(* STATE is the process-wide record of app.py:39-46.  Every start request  *)
(* owns one slot of `thread`: the slot first runs the /start handler and,  *)
(* when the request is accepted, the drip_worker thread it launched.  One  *)
(* step of a thread is one access to STATE (or one external call) followed *)
(* by the local computation up to the next access.                         *)
(***************************************************************************)
EXTENDS Integers, Sequences, FiniteSets, TLC

\* ---------------------------------------------------------------- bounds
MaxStarts == 2      \* start requests the client issues in one behaviour
MaxIter == 2        \* discovery passes of a behaviour with one start request
ShortIter == 1      \* discovery passes with several requests or a full log
MaxPerSub == 1      \* largest per_sub_limit a request carries
MaxTotal == 2       \* largest max_total_posts a request carries
MaxJitter == 2      \* largest jitter_seconds a request carries

\* ------------------------------------------------------ program constants
LOG_CAP == 2000
MIN_CADENCE == 10
BACKOFF_SECONDS == 5
SECONDS_PER_HOUR == 3600

\* sys.float_info.max_10_exp of the float that float() and / produce.
FLOAT_MAX_10_EXP == 308

Threads == 1..MaxStarts

None == "None"

\* ------------------------------------------------------------ the platform
\* Communities of the run's allow-list, in order (config "allowlist").
allowlist == <<"Refs", "Deals">>

Subs == {allowlist[i] : i \in 1..Len(allowlist)}

\* Rule/description text of each community (subreddit.rules(), .description).
RulesText(s) ==
    IF s = "Deals" THEN "No Referrals or affiliate links allowed"
    ELSE "Be kind. Post referrals only in the weekly Megathread"

\* Newest matching threads of each community (sr.search(...)).
Search(s) ==
    IF s = "Refs"
    THEN << [id |-> "r1", title |-> "Referral Megathread"],
            [id |-> "r2", title |-> "Weekly code thread"],
            [id |-> "r3", title |-> "My promo code"] >>
    ELSE << [id |-> "d1", title |-> "Coupon MEGATHREAD"] >>

\* What one discovery pass can meet at a community: the calls succeed, the
\* rule fetch raises, or the thread search raises.
Outcomes(s) ==
    IF s = "Deals" THEN {"ok", "rules_error"}
    ELSE {"ok", "rules_error", "search_error"}

\* The passes explored: at most one community fails in a pass.
Envs == {env \in [Subs -> {"ok", "rules_error", "search_error"}] :
            /\ \A s \in Subs : env[s] \in Outcomes(s)
            /\ Cardinality({s \in Subs : env[s] # "ok"}) <= 1}

\* --------------------------------------------------------- pure functions
Contains(t, pat) ==
    \E i \in 1..(Len(t) - Len(pat) + 1) : SubSeq(t, i, i + Len(pat) - 1) = pat

UPPER == "ABCDEFGHIJKLMNOPQRSTUVWXYZ"
LOWER == "abcdefghijklmnopqrstuvwxyz"

LowerChar(c) ==
    IF \E i \in 1..26 : SubSeq(UPPER, i, i) = c
    THEN LET i == CHOOSE j \in 1..26 : SubSeq(UPPER, j, j) = c
         IN  SubSeq(LOWER, i, i)
    ELSE c

RECURSIVE Lower(_)
Lower(t) ==
    IF Len(t) = 0 THEN ""
    ELSE LowerChar(SubSeq(t, 1, 1)) \o Lower(SubSeq(t, 2, Len(t)))

PROHIBIT_PATTERNS ==
    { "no referrals", "no referral", "no codes", "no promo codes",
      "no self-promotion", "no self promotion", "referrals not allowed",
      "no affiliate", "no affiliate links" }

MEGATHREAD_REQUIRED_PATTERNS ==
    { "referrals only in", "referrals allowed only in",
      "post referrals only in", "megathread", "weekly thread" }

KEYWORDS ==
    { "referral", "referrals", "promo", "code", "coupon", "discount",
      "megathread" }

is_megathread_title(title) ==
    LET t == Lower(title)
    IN  Contains(t, "megathread")
            \/ (Contains(t, "weekly") /\ Contains(t, "thread"))

\* The evaluator treating a failed fetch as a prohibition.
rules_disallow_referrals_FailClosed(s, outcome) ==
    IF outcome = "rules_error"
    THEN [disallow |-> TRUE, mega_only |-> FALSE]
    ELSE LET blob == Lower(RulesText(s))
         IN  [disallow |-> \E pat \in PROHIBIT_PATTERNS : Contains(blob, pat),
              mega_only |-> \E pat \in MEGATHREAD_REQUIRED_PATTERNS :
                               Contains(blob, pat)]

\* app.py:145-160.  outcome "rules_error": fetching the rules raised.
rules_disallow_referrals(s, outcome) ==
    IF outcome = "rules_error"
    THEN [disallow |-> FALSE, mega_only |-> FALSE]
    ELSE LET blob == Lower(RulesText(s))
         IN  [disallow |-> \E pat \in PROHIBIT_PATTERNS : Contains(blob, pat),
              mega_only |-> \E pat \in MEGATHREAD_REQUIRED_PATTERNS :
                               Contains(blob, pat)]

\* A configured rate: the float digits * 10^exp10 posts per hour.
Rate(digits, exp10) == [digits |-> digits, exp10 |-> exp10]

\* config.get("posts_per_hour", 1)
DefaultRate == Rate(1, 0)

\* The rates explored: 1, 0.5, 7, 361 and 1e-320 posts per hour.
Rates == {DefaultRate, Rate(5, -1), Rate(7, 0), Rate(361, 0), Rate(1, -320)}

RECURSIVE Pow10(_)
Pow10(k) == IF k = 0 THEN 1 ELSE 10 * Pow10(k - 1)

\* 3600 / posts_per_hour is float division: it gives inf, without raising,
\* when the quotient is above the largest float, which for digits below
\* 20000 is the case of every exp10 under -308.
QuotientIsInf(p) == p.exp10 < -FLOAT_MAX_10_EXP

\* int(3600 / posts_per_hour) for a finite quotient: truncation, which for a
\* positive quotient is the floor.
IntQuotient(p) ==
    IF p.exp10 >= 0
    THEN SECONDS_PER_HOUR \div (p.digits * Pow10(p.exp10))
    ELSE (SECONDS_PER_HOUR * Pow10(-p.exp10)) \div p.digits

\* app.py:357: max(10, int(3600 / posts_per_hour))
cadence_seconds(p) ==
    IF IntQuotient(p) > MIN_CADENCE THEN IntQuotient(p) ELSE MIN_CADENCE

\* key = f"{s}_{submission.id}"
Key(s, id) == s \o "_" \o id

\* A log entry; ts is filled in when the entry is appended.
Entry(level, event, sub, title) ==
    [level |-> level, event |-> event, sub |-> sub, title |-> title, ts |-> 0]

NoEntry == Entry("", "", "", "")

\* STATE["logs"][-2000:]
LastN(log, n) ==
    IF Len(log) <= n THEN log ELSE SubSeq(log, Len(log) - n + 1, Len(log))

\* ---------------------------------------------------------------- discovery
Yield(s, subm, flags) ==
    [kind |-> "yield", event |-> "", s |-> s, submission |-> subm,
     disallow |-> flags.disallow, mega_only |-> flags.mega_only]

NoSubmission == [id |-> "", title |-> ""]

Warn(event, s) ==
    [kind |-> "warn", event |-> event, s |-> s, submission |-> NoSubmission,
     disallow |-> FALSE, mega_only |-> FALSE]

\* The threads one community yields (app.py:173-181): not seen before in this
\* pass, title holding one of the keywords.
RECURSIVE YieldsOf(_, _, _, _)
YieldsOf(s, subms, flags, seen) ==
    IF subms = <<>> THEN <<>>
    ELSE LET subm == Head(subms)
             title == Lower(subm.title)
         IN  IF <<s, subm.id>> \in seen
             THEN YieldsOf(s, Tail(subms), flags, seen)
             ELSE IF \E k \in KEYWORDS : Contains(title, k)
                  THEN <<Yield(s, subm, flags)>>
                         \o YieldsOf(s, Tail(subms), flags, seen \cup {<<s, subm.id>>})
                  ELSE YieldsOf(s, Tail(subms), flags, seen \cup {<<s, subm.id>>})

\* What the generator produces in one pass, in order: the tuples it yields and
\* the warnings it logs between them.
RECURSIVE find_candidate_threads(_, _)
find_candidate_threads(subs, env) ==
    IF subs = <<>> THEN <<>>
    ELSE LET s == Head(subs)
             flags == rules_disallow_referrals(s, env[s])
             here == IF env[s] = "search_error"
                     THEN <<Warn("allowlist_search_error", s)>>
                     ELSE YieldsOf(s, Search(s), flags, {})
         IN  here \o find_candidate_threads(Tail(subs), env)

\* ------------------------------------------------------------------- state
VARIABLES
    State,      \* STATE, the shared run state, app.py:39-46
    thread,     \* per start request: the handler, then the worker it launched
    clock,      \* number of log entries appended so far (the entries' ts)
    passes,     \* discovery passes run so far
    plan,       \* what is explored: start requests issued, passes run
    obs         \* per worker, what it has done: history for the properties

vars == <<State, thread, clock, passes, plan, obs>>

NoConfig ==
    [message |-> "", dry_run |-> FALSE, per_sub_limit |-> 0,
     max_total_posts |-> 0, only_megathreads |-> FALSE, end_at |-> FALSE,
     posts_per_hour |-> DefaultRate, jitter_seconds |-> 0]

\* request.json of a start request: one post per hour with no jitter.
Requests ==
    [message : {"", "hi"}, dry_run : BOOLEAN, per_sub_limit : 0..MaxPerSub,
     max_total_posts : 0..MaxTotal, only_megathreads : BOOLEAN,
     end_at : BOOLEAN, posts_per_hour : {DefaultRate}, jitter_seconds : {0}]

\* The bodies that leave dry_run, only_megathreads and end_at at the default
\* of app.py:352-366, the caps being the largest ones explored.
DefaultRequests ==
    {d \in Requests : /\ d.message # ""
                      /\ ~d.dry_run
                      /\ d.only_megathreads
                      /\ d.per_sub_limit = MaxPerSub
                      /\ d.max_total_posts = MaxTotal
                      /\ ~d.end_at}

\* The same bodies with every explored rate and jitter.
CadenceRequests ==
    {[d EXCEPT !.posts_per_hour = p, !.jitter_seconds = j] :
        d \in DefaultRequests, p \in Rates, j \in 0..MaxJitter}

\* The default body with a rate of 1e-320 posts per hour: the worker it
\* starts leaves drip_worker at line 357, before the loop.
OverflowRequests ==
    {[d EXCEPT !.posts_per_hour = Rate(1, -320)] : d \in DefaultRequests}

\* The request bodies a behaviour draws from.
Bodies(kind) ==
    IF kind = "all" THEN Requests
    ELSE IF kind = "cadence" THEN CadenceRequests
    ELSE IF kind = "overflow" THEN OverflowRequests
    ELSE DefaultRequests

NoCounts == [s \in Subs |-> 0]

\* No pass is under way.
NoEnv == [s \in Subs |-> "none"]

Idle ==
    [pc |-> "idle", result |-> 0, config |-> NoConfig,
     cadence_seconds |-> 0, slept |-> 0,
     posted |-> 0, seen_targets |-> {}, per_sub_counts |-> NoCounts,
     env |-> NoEnv, mark |-> 0,
     events |-> <<>>, idx |-> 1, candidates |-> <<>>,
     s |-> "", submission |-> NoSubmission,
     entry |-> NoEntry, ret |-> "", sliced |-> <<>>]

\* logged: the events the worker appended; targets: the (community, thread)
\* pairs it chose; replies: the communities of its successful replies;
\* cleared: it ran app.py:431; auth_failed: user.me() raised; stop_asked: stop
\* was requested while it was inside drip_worker with the running flag set;
\* full: the log held LOG_CAP entries when its latest _log call began;
\* stop_in_loop: stop was requested while it was inside the while loop of
\* app.py:368-428; late_replies: the replies it has submitted since then.
NoObs ==
    [logged |-> <<>>, targets |-> <<>>, replies |-> <<>>, cleared |-> FALSE,
     auth_failed |-> FALSE, stop_asked |-> FALSE, full |-> FALSE,
     stop_in_loop |-> FALSE, late_replies |-> 0]

\* The log n earlier runs leave behind when each of them failed to resolve
\* the identity: such a run logs job_done and nothing else (app.py:323-329,
\* 430-432).
PriorLogs(n) == [i \in 1..n |-> [Entry("info", "job_done", "", "") EXCEPT !.ts = i]]

\* What a behaviour explores: how many start requests the client issues, how
\* many discovery passes are run, and which request bodies are sent.
OneRun(iters, bodies) == [starts |-> 1, iters |-> iters, bodies |-> bodies]
Race(iters) == [starts |-> MaxStarts, iters |-> iters, bodies |-> "default"]
Timing(iters) == [starts |-> 1, iters |-> iters, bodies |-> "cadence"]
Restart(iters) == [starts |-> MaxStarts, iters |-> iters, bodies |-> "restart"]

\* The process right after construction (app.py:39-46) when prior = 0, or
\* after a login and prior earlier runs that failed to authenticate.
Start(prior, p) ==
    /\ State = [refresh_token |-> IF prior = 0 THEN None ELSE "token",
                running |-> FALSE, stop_requested |-> FALSE,
                logs |-> PriorLogs(prior),
                summary |-> NoCounts, last_login_user |-> None]
    /\ clock = prior
    /\ plan = p
    /\ thread = [t \in Threads |-> Idle]
    /\ passes = 0
    /\ obs = [t \in Threads |-> NoObs]

\* One start request: every request body on a fresh process, the default
\* body on a process whose log is full.
Init ==
    Start(0, OneRun(MaxIter, "all")) \/ Start(LOG_CAP, OneRun(ShortIter, "default"))

\* Several start requests: on a fresh process with ShortIter passes, and on a
\* process whose log is full up to the workers' first pass.
InitRace == Start(0, Race(ShortIter)) \/ Start(LOG_CAP, Race(0))

\* One start request with every explored rate and jitter: on a fresh process
\* with ShortIter passes, and on a process whose log is full up to the
\* worker's first pass.
InitCadence == Start(0, Timing(ShortIter)) \/ Start(LOG_CAP, Timing(0))

\* Several start requests, the first with the default body and the later
\* ones with a body whose worker ends before its loop: on a fresh process
\* with MaxIter passes, so that the first worker can go round its loop again
\* after a stop request; and one start request on a process whose log is
\* full, up to the worker's first pass.
InitStop == Start(0, Restart(MaxIter)) \/ Start(LOG_CAP, OneRun(0, "default"))

\* The request bodies the start request of slot t draws from.
RequestBodies(t) ==
    IF plan.bodies = "restart"
    THEN Bodies(IF t = 1 THEN "default" ELSE "overflow")
    ELSE Bodies(plan.bodies)

\* The worker of slot t has executed app.py:310 and has not left drip_worker.
Inside(t) ==
    thread[t].pc \notin {"idle", "start_token", "rejected", "init", "done"}

\* The steps of a _log call, app.py:49-53.
LogPcs == {"log_append", "log_len", "log_slice", "log_store"}

\* The steps of the while loop of app.py:368-428 outside its _log calls.
LoopPcs == {"loop", "discover", "scan", "choose", "cap_check", "sleep"}

\* The events logged right before a break of the loop, app.py:370, 378, 420.
BreakEvents == {"stop_requested", "end_time_reached", "total_cap_reached"}

\* The worker w is inside the while loop of app.py:368-428, the _log calls
\* made from the loop included.
InMainLoop(w) ==
    \/ w.pc \in LoopPcs
    \/ /\ w.pc \in LogPcs
       /\ \/ w.ret \in LoopPcs
          \/ w.ret = "finally" /\ w.entry.event \in BreakEvents

\* ------------------------------------------------------- control surface
\* start() without the guard of app.py:484-485.
StartCheckRunning_Unguarded(t) ==
    /\ thread[t].pc = "idle"
    /\ t <= plan.starts
    /\ \A u \in Threads : u < t => thread[u].pc # "idle"
    /\ thread' = [thread EXCEPT ![t].pc = "start_token"]
    /\ UNCHANGED <<State, clock, passes, plan, obs>>

\* start(), app.py:484-485: the running flag is read first.
StartCheckRunning(t) ==
    /\ thread[t].pc = "idle"
    /\ t <= plan.starts
    /\ \A u \in Threads : u < t => thread[u].pc # "idle"
    /\ thread' = [thread EXCEPT ![t] =
                    IF State.running
                    THEN [@ EXCEPT !.pc = "rejected", !.result = 400]
                    ELSE [@ EXCEPT !.pc = "start_token"]]
    /\ UNCHANGED <<State, clock, passes, plan, obs>>

\* start(), app.py:486-497: credential check, required fields, thread launch.
\* The slot's config is the request body read at line 489 (a message of ""
\* stands for an empty or missing one: data.get("message") is falsy for both).
StartLaunch(t) ==
    /\ thread[t].pc = "start_token"
    /\ \E data \in RequestBodies(t) :
         thread' = [thread EXCEPT ![t] =
                      IF State.refresh_token = None
                      THEN [@ EXCEPT !.pc = "rejected", !.result = 401]
                      ELSE IF data.message = ""
                           THEN [@ EXCEPT !.pc = "rejected", !.result = 400,
                                          !.config = data]
                           ELSE [@ EXCEPT !.pc = "init", !.result = 200,
                                          !.config = data]]
    /\ UNCHANGED <<State, clock, passes, plan, obs>>

\* stop(), app.py:499-502
Stop ==
    /\ State' = [State EXCEPT !.stop_requested = TRUE]
    /\ obs' = [t \in Threads |->
                 [obs[t] EXCEPT !.stop_asked = @ \/ (State.running /\ Inside(t)),
                                !.stop_in_loop = @ \/ InMainLoop(thread[t])]]
    /\ UNCHANGED <<thread, clock, passes, plan>>

\* oauth_callback(), app.py:457-474: the credential is stored, then the
\* identity is resolved; a failure of user.me() is swallowed.
OAuthCallback ==
    /\ State.refresh_token = None
    /\ \E ok \in BOOLEAN :
         State' = [State EXCEPT !.refresh_token = "token",
                                !.last_login_user = IF ok THEN "me" ELSE @]
    /\ UNCHANGED <<thread, clock, passes, plan, obs>>

\* ---------------------------------------------------------------- _log
\* A call of _log(level, event, ...) that returns to the label ret.
CallLog(w, e, ret) == [w EXCEPT !.pc = "log_append", !.entry = e, !.ret = ret]

\* app.py:49-51: build the entry and append it.
LogAppend(t) ==
    /\ thread[t].pc = "log_append"
    /\ State' = [State EXCEPT !.logs =
                    Append(@, [thread[t].entry EXCEPT !.ts = clock + 1])]
    /\ clock' = clock + 1
    /\ thread' = [thread EXCEPT ![t].pc = "log_len", ![t].entry.ts = clock + 1]
    /\ obs' = [obs EXCEPT ![t].logged = Append(@, thread[t].entry.event),
                          ![t].full = (Len(State.logs) = LOG_CAP)]
    /\ UNCHANGED <<passes, plan>>

\* app.py:52: if len(STATE["logs"]) > 2000
LogLen(t) ==
    /\ thread[t].pc = "log_len"
    /\ thread' = [thread EXCEPT ![t].pc =
                    IF Len(State.logs) > LOG_CAP THEN "log_slice"
                    ELSE thread[t].ret]
    /\ UNCHANGED <<State, clock, passes, plan, obs>>

\* app.py:53, right-hand side: STATE["logs"][-2000:]
LogSlice(t) ==
    /\ thread[t].pc = "log_slice"
    /\ thread' = [thread EXCEPT ![t].pc = "log_store",
                                ![t].sliced = LastN(State.logs, LOG_CAP)]
    /\ UNCHANGED <<State, clock, passes, plan, obs>>

\* app.py:53, the assignment
LogStore(t) ==
    /\ thread[t].pc = "log_store"
    /\ State' = [State EXCEPT !.logs = thread[t].sliced]
    /\ thread' = [thread EXCEPT ![t].pc = thread[t].ret, ![t].sliced = <<>>]
    /\ UNCHANGED <<clock, passes, plan, obs>>

\* ---------------------------------------------------------- drip_worker
\* app.py:310
SetRunning(t) ==
    /\ thread[t].pc = "init"
    /\ State' = [State EXCEPT !.running = TRUE]
    /\ thread' = [thread EXCEPT ![t].pc = "clear_stop"]
    /\ UNCHANGED <<clock, passes, plan, obs>>

\* app.py:311
ClearStop(t) ==
    /\ thread[t].pc = "clear_stop"
    /\ State' = [State EXCEPT !.stop_requested = FALSE]
    /\ thread' = [thread EXCEPT ![t].pc = "reset_summary"]
    /\ UNCHANGED <<clock, passes, plan, obs>>

\* app.py:312-315
ResetSummary(t) ==
    /\ thread[t].pc = "reset_summary"
    /\ State' = [State EXCEPT !.summary = NoCounts]
    /\ thread' = [thread EXCEPT ![t].pc = "auth", ![t].posted = 0,
                                ![t].seen_targets = {},
                                ![t].per_sub_counts = NoCounts]
    /\ UNCHANGED <<clock, passes, plan, obs>>

\* The names the module's imports bind, app.py:13-25.
ImportedNames ==
    { "os", "csv", "io", "time", "random", "threading", "dt", "List", "Dict",
      "Optional", "urlencode", "Flask", "render_template", "request",
      "jsonify", "redirect", "url_for", "session", "Response",
      "send_from_directory", "abort", "CORS", "praw", "prawcore" }

\* The exception escaping drip_worker without its finally block.
OnException_SkipsFinally(w) == [w EXCEPT !.pc = "done"]

\* An exception no handler inside drip_worker catches: the try statement of
\* app.py:317 hands control to its finally block (app.py:430).
OnException(w) == [w EXCEPT !.pc = "finally"]

\* app.py:321-329.  When user.me() raises, Python evaluates the handler's
\* class expression, Unauthorized: if the name is bound the handler logs
\* auth_failed and returns (through the finally block), and if it is not the
\* evaluation raises NameError, which no handler catches.
Authenticate(t) ==
    /\ thread[t].pc = "auth"
    /\ \E ok \in BOOLEAN :
         /\ IF ok
            THEN /\ State' = [State EXCEPT !.last_login_user = "me"]
                 /\ thread' = [thread EXCEPT ![t] =
                                 CallLog(@, Entry("info", "auth_ok", "", ""), "config")]
            ELSE /\ thread' = [thread EXCEPT ![t] =
                                 IF "Unauthorized" \in ImportedNames
                                 THEN CallLog(@, Entry("error", "auth_failed", "", ""),
                                              "finally")
                                 ELSE OnException(@)]
                 /\ UNCHANGED State
         /\ obs' = [obs EXCEPT ![t].auth_failed = ~ok]
    /\ UNCHANGED <<clock, passes, plan>>

\* app.py:331-366, of which the model keeps the cadence: float() and the
\* division of line 357 return, and int() raises OverflowError, which no
\* handler catches, when the quotient is inf.
ParseConfig(t) ==
    /\ thread[t].pc = "config"
    /\ LET p == thread[t].config.posts_per_hour
       IN  thread' = [thread EXCEPT ![t] =
                        IF QuotientIsInf(p)
                        THEN OnException(@)
                        ELSE [@ EXCEPT !.pc = "loop",
                                       !.cadence_seconds = cadence_seconds(p)]]
    /\ UNCHANGED <<State, clock, passes, plan, obs>>

\* app.py:368-379, with start_at left to its default (now): the stop flag is
\* read, then the end time is compared with the clock.
LoopTop(t) ==
    /\ thread[t].pc = "loop"
    /\ \E expired \in {FALSE, thread[t].config.end_at} :
         thread' = [thread EXCEPT ![t] =
                      IF State.stop_requested
                      THEN CallLog(@, Entry("warn", "stop_requested", "", ""), "finally")
                      ELSE IF expired
                           THEN CallLog(@, Entry("info", "end_time_reached", "", ""),
                                        "finally")
                           ELSE [@ EXCEPT !.pc = "discover"]]
    /\ UNCHANGED <<State, clock, passes, plan, obs>>

\* app.py:382-383: a new pass of find_candidate_threads begins.
Discover(t) ==
    /\ thread[t].pc = "discover"
    /\ passes < plan.iters
    /\ \E env \in Envs :
         thread' = [thread EXCEPT ![t].pc = "scan",
                                  ![t].env = env,
                                  ![t].mark = clock,
                                  ![t].events = find_candidate_threads(allowlist, env),
                                  ![t].idx = 1,
                                  ![t].candidates = <<>>]
    /\ passes' = passes + 1
    /\ UNCHANGED <<State, clock, plan, obs>>

\* The cap compared with > instead of >=.
CapReached_OffByOne(w, s) == w.per_sub_counts[s] > w.config.per_sub_limit

\* The dedup lookup that never finds the key.
AlreadySeen_Never(w, s, id) == FALSE

\* app.py:391: per_sub_counts.get(s, 0) >= per_sub_limit
CapReached(w, s) == w.per_sub_counts[s] >= w.config.per_sub_limit

\* app.py:393-394: seen_targets.get(key)
AlreadySeen(w, s, id) == Key(s, id) \in w.seen_targets

\* The rule flag of the yielded tuple left out of account.
Disallowed_Ignored(e) == FALSE

\* app.py:385: if disallow
Disallowed(e) == e.disallow

\* The megathread filter applied on the run's flag alone.
NotMegathread_GlobalFlagOnly(w, e) ==
    w.config.only_megathreads /\ ~is_megathread_title(e.submission.title)

\* app.py:388: (only_megathreads or mega_only) and not is_megathread_title(..)
NotMegathread(w, e) ==
    (w.config.only_megathreads \/ e.mega_only)
        /\ ~is_megathread_title(e.submission.title)

\* app.py:383-396 (and 182-183 for a warning of the generator): consume the
\* pass from position i up to the next tuple that logs, or to its end.
RECURSIVE ScanFrom(_, _, _)
ScanFrom(w, i, cands) ==
    IF i > Len(w.events) THEN [i |-> i, candidates |-> cands, log |-> NoEntry]
    ELSE LET e == w.events[i]
             title == e.submission.title
         IN  IF e.kind = "warn"
             THEN [i |-> i + 1, candidates |-> cands,
                   log |-> Entry("warn", e.event, e.s, "")]
             ELSE IF Disallowed(e)
             THEN [i |-> i + 1, candidates |-> cands,
                   log |-> Entry("info", "skip_rules_disallow", e.s, title)]
             ELSE IF NotMegathread(w, e)
             THEN [i |-> i + 1, candidates |-> cands,
                   log |-> Entry("info", "skip_not_megathread", e.s, title)]
             ELSE IF CapReached(w, e.s)
             THEN ScanFrom(w, i + 1, cands)
             ELSE IF AlreadySeen(w, e.s, e.submission.id)
             THEN ScanFrom(w, i + 1, cands)
             ELSE ScanFrom(w, i + 1, Append(cands, <<e.s, e.submission>>))

Scan(t) ==
    /\ thread[t].pc = "scan"
    /\ LET r == ScanFrom(thread[t], thread[t].idx, thread[t].candidates)
           w == [thread[t] EXCEPT !.idx = r.i, !.candidates = r.candidates]
       IN  thread' = [thread EXCEPT ![t] =
                        IF r.log = NoEntry
                        THEN [w EXCEPT !.pc = "choose"]
                        ELSE CallLog(w, r.log, "scan")]
    /\ UNCHANGED <<State, clock, passes, plan, obs>>

\* A pass without candidates ending the run.
Backoff_Terminates(t) ==
    /\ thread[t].pc = "choose"
    /\ thread[t].candidates = <<>>
    /\ thread' = [thread EXCEPT ![t].pc = "finally", ![t].events = <<>>,
                                ![t].idx = 1, ![t].env = NoEnv, ![t].mark = 0]
    /\ UNCHANGED <<State, clock, passes, plan, obs>>

\* app.py:398-400: nothing survived, back off and loop.  slept is the
\* argument of the worker's latest time.sleep call.
Backoff(t) ==
    /\ thread[t].pc = "choose"
    /\ thread[t].candidates = <<>>
    /\ thread' = [thread EXCEPT ![t].pc = "loop", ![t].events = <<>>,
                                ![t].slept = BACKOFF_SECONDS,
                                ![t].idx = 1, ![t].env = NoEnv, ![t].mark = 0]
    /\ UNCHANGED <<State, clock, passes, plan, obs>>

\* The handler of a failed post ending the run instead of continuing.
OnPostFailure_Aborts(w, s, title) ==
    CallLog(w, Entry("error", "post_failed", s, title), "finally")

\* app.py:422-423: the handler logs post_failed; control falls through to the
\* cadence sleep of app.py:426.
OnPostFailure(w, s, title) ==
    CallLog(w, Entry("error", "post_failed", s, title), "sleep")

\* app.py:403-417 and 422-423: pick a survivor, mark it, render, and either
\* log the dry-run match or submit the reply (which succeeds or raises).
Choose(t) ==
    /\ thread[t].pc = "choose"
    /\ thread[t].candidates # <<>>
    /\ \E k \in 1..Len(thread[t].candidates), ok \in BOOLEAN :
         LET s == thread[t].candidates[k][1]
             submission == thread[t].candidates[k][2]
             w == [thread[t] EXCEPT
                     !.s = s, !.submission = submission, !.candidates = <<>>,
                     !.events = <<>>, !.idx = 1, !.env = NoEnv, !.mark = 0,
                     !.seen_targets = @ \cup {Key(s, submission.id)}]
             n == w.per_sub_counts[s] + 1
         IN  /\ obs' = [obs EXCEPT
                          ![t].targets = Append(@, <<s, submission.id>>),
                          ![t].replies = IF ~w.config.dry_run /\ ok
                                         THEN Append(@, s) ELSE @,
                          ![t].late_replies =
                              IF ~w.config.dry_run /\ ok /\ obs[t].stop_in_loop
                              THEN @ + 1 ELSE @]
             /\ IF w.config.dry_run
                THEN /\ ok
                     /\ thread' = [thread EXCEPT ![t] =
                          CallLog(w, Entry("info", "dry_run_match", s, submission.title),
                                  "cap_check")]
                     /\ UNCHANGED State
                ELSE IF ok
                THEN /\ thread' = [thread EXCEPT ![t] =
                          CallLog([w EXCEPT !.posted = @ + 1,
                                            !.per_sub_counts[s] = n],
                                  Entry("success", "comment_posted", s, submission.title),
                                  "cap_check")]
                     /\ State' = [State EXCEPT !.summary[s] = n]
                ELSE /\ thread' = [thread EXCEPT ![t] =
                                        OnPostFailure(w, s, submission.title)]
                     /\ UNCHANGED State
    /\ UNCHANGED <<clock, passes, plan>>

\* The total cap compared without regard to the dry-run flag.
TotalCapReached_IgnoresDryRun(w) == w.posted >= w.config.max_total_posts

\* app.py:419: posted >= max_total_posts and not dry_run
TotalCapReached(w) == w.posted >= w.config.max_total_posts /\ ~w.config.dry_run

\* app.py:419-421
CapCheck(t) ==
    /\ thread[t].pc = "cap_check"
    /\ thread' = [thread EXCEPT ![t] =
                    IF TotalCapReached(@)
                    THEN CallLog(@, Entry("info", "total_cap_reached", "", ""), "finally")
                    ELSE [@ EXCEPT !.pc = "sleep"]]
    /\ UNCHANGED <<State, clock, passes, plan, obs>>

\* app.py:426-428: the delay is drawn, logged, and slept once the log call
\* has returned.
Sleep(t) ==
    /\ thread[t].pc = "sleep"
    /\ \E j \in 0..thread[t].config.jitter_seconds :
         thread' = [thread EXCEPT ![t] =
                      CallLog([@ EXCEPT !.slept = thread[t].cadence_seconds + j],
                              Entry("info", "sleep", "", ""), "loop")]
    /\ UNCHANGED <<State, clock, passes, plan, obs>>

\* app.py:430-432
Finally(t) ==
    /\ thread[t].pc = "finally"
    /\ State' = [State EXCEPT !.running = FALSE]
    /\ thread' = [thread EXCEPT ![t] =
                    CallLog(@, Entry("info", "job_done", "", ""), "done")]
    /\ obs' = [obs EXCEPT ![t].cleared = TRUE]
    /\ UNCHANGED <<clock, passes, plan>>

Next ==
    \/ Stop
    \/ OAuthCallback
    \/ \E t \in Threads :
         \/ StartCheckRunning(t)
         \/ StartLaunch(t)
         \/ SetRunning(t)
         \/ ClearStop(t)
         \/ ResetSummary(t)
         \/ Authenticate(t)
         \/ ParseConfig(t)
         \/ LoopTop(t)
         \/ Discover(t)
         \/ Scan(t)
         \/ Backoff(t)
         \/ Choose(t)
         \/ CapCheck(t)
         \/ Sleep(t)
         \/ Finally(t)
         \/ LogAppend(t)
         \/ LogLen(t)
         \/ LogSlice(t)
         \/ LogStore(t)

Spec == Init /\ [][Next]_vars

SpecRace == InitRace /\ [][Next]_vars

SpecCadence == InitCadence /\ [][Next]_vars

SpecStop == InitStop /\ [][Next]_vars

\* ================================================================ claims
Count(seq, x) == Cardinality({i \in 1..Len(seq) : seq[i] = x})

\* The tuple the pass of worker t yielded at position i would be a candidate
\* as far as the rule and megathread filters go.
Eligible(t, i) ==
    LET e == thread[t].events[i]
    IN  /\ e.kind = "yield"
        /\ ~e.disallow
        /\ ~((thread[t].config.only_megathreads \/ e.mega_only)
               /\ ~is_megathread_title(e.submission.title))

\* C1: at most one drip_worker instance is inside the function at any time,
\* whatever the interleaving of start requests and worker threads.
C1_AtMostOneWorker == Cardinality({t \in Threads : Inside(t)}) <= 1

\* C2: a start request that reads the running flag as true, or the credential
\* as missing, ends with an error status, launches no worker and changes no
\* field of the run state.
C2_RejectedStartChangesNothing ==
    [][\A t \in Threads :
         LET sawRunning == /\ thread[t].pc = "idle"
                           /\ thread'[t].pc # "idle"
                           /\ State.running
             sawNoToken == /\ thread[t].pc = "start_token"
                           /\ thread'[t].pc # "start_token"
                           /\ State.refresh_token = None
         IN  (sawRunning \/ sawNoToken) =>
                /\ thread'[t].pc = "rejected"
                /\ thread'[t].result = IF sawRunning THEN 400 ELSE 401
                /\ State' = State
                /\ \A u \in Threads : thread'[u].pc = "init" => thread[u].pc = "init"
       ]_vars

\* C2 witness: a start request was rejected with 400 while another request's
\* worker is inside drip_worker with the running flag set.
C2_Witness ==
    \E t, u \in Threads :
        /\ thread[t].pc = "rejected"
        /\ thread[t].result = 400
        /\ Inside(u)
        /\ State.running

\* C3: in every state of a run, the successful replies posted into any one
\* community number at most the run's per_sub_limit.
C3_PerSubCap ==
    \A t \in Threads : \A s \in Subs :
        Count(obs[t].replies, s) <= thread[t].config.per_sub_limit

\* C3 witness: a pass has yielded a thread that passes the rule filters and
\* was never targeted, in a community whose replies have reached a cap >= 1,
\* and the pass ended without it among the candidates.
C3_Witness ==
    \E t \in Threads :
        /\ thread[t].pc = "choose"
        /\ \E i \in 1..Len(thread[t].events) :
             LET e == thread[t].events[i]
             IN  /\ Eligible(t, i)
                 /\ thread[t].config.per_sub_limit >= 1
                 /\ Count(obs[t].replies, e.s) = thread[t].config.per_sub_limit
                 /\ ~AlreadySeen(thread[t], e.s, e.submission.id)
                 /\ \A k \in 1..Len(thread[t].candidates) :
                       thread[t].candidates[k] # <<e.s, e.submission>>

\* C4: in every state of a run that is not a dry run, the successful replies
\* number at most max_total_posts, for every max_total_posts >= 0.
C4_TotalCap ==
    \A t \in Threads :
        ~thread[t].config.dry_run =>
            Len(obs[t].replies) <= thread[t].config.max_total_posts

\* C5: within one run no (community, thread) pair is chosen as a target more
\* than once.
C5_NoPairTargetedTwice ==
    \A t \in Threads : \A i, j \in 1..Len(obs[t].targets) :
        i # j => obs[t].targets[i] # obs[t].targets[j]

\* C5 witness: after a failed post, a later pass yielded a pair that had been
\* targeted before and that neither the rule filters nor the cap drop.
C5_Witness ==
    \E t \in Threads :
        /\ thread[t].pc = "choose"
        /\ Count(obs[t].logged, "post_failed") >= 1
        /\ \E i \in 1..Len(thread[t].events) :
             LET e == thread[t].events[i]
             IN  /\ Eligible(t, i)
                 /\ ~CapReached(thread[t], e.s)
                 /\ Count(obs[t].targets, <<e.s, e.submission.id>>) = 1

\* C6: a worker that was asked to stop while it was running, and whose
\* external calls all returned, has logged stop_requested before job_done
\* when it terminates.
C6_StopLoggedBeforeDone ==
    \A t \in Threads :
        (thread[t].pc = "done" /\ obs[t].stop_asked /\ ~obs[t].auth_failed) =>
            \E i, j \in 1..Len(obs[t].logged) :
                /\ i < j
                /\ obs[t].logged[i] = "stop_requested"
                /\ obs[t].logged[j] = "job_done"

\* C7: in every state, those between the steps of an append included, the
\* shared log holds at most 2000 entries.
C7_LogAtMostCap == Len(State.logs) <= LOG_CAP

\* C8: when a _log call that began on a log of 2000 entries returns, the log
\* is the previous entries 2..2000 followed by the new entry, in order.
C8_EvictsOldestOnly ==
    [][\A t \in Threads :
         (/\ thread[t].pc \in LogPcs
          /\ thread'[t].pc \notin LogPcs
          /\ obs[t].full) =>
            /\ Len(State'.logs) = LOG_CAP
            /\ State'.logs[LOG_CAP] = thread[t].entry
            /\ \A i \in 1..LOG_CAP :
                  State'.logs[i].ts = thread[t].entry.ts - LOG_CAP + i
       ]_vars

\* C9: a worker that has left drip_worker, for whatever reason, has cleared
\* the running flag and has appended job_done as its last log entry; while no
\* worker is inside drip_worker the flag is false.
C9_CleanupAlwaysRuns ==
    \A t \in Threads :
        thread[t].pc = "done" =>
            /\ obs[t].cleared
            /\ obs[t].logged # <<>>
            /\ obs[t].logged[Len(obs[t].logged)] = "job_done"
            /\ (\A u \in Threads : ~Inside(u)) => ~State.running

\* C9 witness: a worker has left drip_worker through an uncaught exception.
C9_Witness ==
    \E t \in Threads : thread[t].pc = "done" /\ obs[t].auth_failed

\* C10: a worker whose identity resolution failed has appended exactly one
\* auth_failed entry, has cleared the running flag, and has run no discovery
\* pass and chosen no target.
C10_AuthFailureLogged ==
    \A t \in Threads :
        (thread[t].pc = "done" /\ obs[t].auth_failed) =>
            /\ Count(obs[t].logged, "auth_failed") = 1
            /\ obs[t].cleared
            /\ obs[t].targets = <<>>

\* C11: when the reply submission raises, the worker logs post_failed with the
\* target's community and title, leaves the posted count, every per-community
\* count and the summary as they were, and goes on to the cadence sleep and
\* from there to the top of the loop.
C11_PostFailureContinues ==
    [][\A t \in Threads :
         LET w == thread[t]
             w2 == thread'[t]
             failing == w2.entry.event = "post_failed"
         IN  /\ (w.pc = "choose" /\ w2.pc = "log_append" /\ failing) =>
                    /\ w2.entry.sub = w2.s
                    /\ w2.entry.title = w2.submission.title
                    /\ w2.posted = w.posted
                    /\ w2.per_sub_counts = w.per_sub_counts
                    /\ State'.summary = State.summary
             /\ (w.pc \in LogPcs /\ w2.pc \notin LogPcs /\ w.entry.event = "post_failed") =>
                    /\ w2.pc = "sleep"
                    /\ w2.posted = w.posted
                    /\ w2.per_sub_counts = w.per_sub_counts
                    /\ State'.summary = State.summary
             /\ (w.pc = "sleep" /\ w2.pc # "sleep") =>
                    /\ w2.entry.event = "sleep"
                    /\ w2.ret = "loop"
             /\ (w.pc \in LogPcs /\ w2.pc \notin LogPcs /\ w.entry.event = "sleep") =>
                    w2.pc = "loop"
       ]_vars

\* C11 witness: after a failed post the worker slept and came back to the top
\* of its loop.
C11_Witness ==
    \E t \in Threads :
        /\ thread[t].pc = "loop"
        /\ \E i \in 1..Len(obs[t].logged) - 1 :
             /\ obs[t].logged[i] = "post_failed"
             /\ obs[t].logged[i + 1] = "sleep"

\* C12: a dry run submits no reply (so none succeeds and none fails), logs no
\* comment_posted, keeps the posted count, the per-community counts and the
\* summary at their initial values, never ends with total_cap_reached whatever
\* max_total_posts is, and logs one dry_run_match per chosen target.
C12_DryRunPostsNothing ==
    \A t \in Threads :
        thread[t].config.dry_run =>
            LET w == thread[t]
                pending == IF w.pc = "log_append" /\ w.entry.event = "dry_run_match"
                           THEN 1 ELSE 0
            IN  /\ obs[t].replies = <<>>
                /\ Count(obs[t].logged, "comment_posted") = 0
                /\ Count(obs[t].logged, "post_failed") = 0
                /\ w.entry.event \notin {"comment_posted", "post_failed",
                                         "total_cap_reached"}
                /\ Count(obs[t].logged, "total_cap_reached") = 0
                /\ w.posted = 0
                /\ w.per_sub_counts = NoCounts
                /\ State.summary = NoCounts
                /\ Count(obs[t].logged, "dry_run_match") + pending
                       = Len(obs[t].targets)

\* C12 witness: a dry run whose max_total_posts is 0 has logged a match and
\* gone past the cap test of app.py:419 into the cadence sleep.
C12_Witness ==
    \E t \in Threads :
        /\ thread[t].config.dry_run
        /\ thread[t].config.max_total_posts = 0
        /\ thread[t].pc = "sleep"
        /\ Count(obs[t].logged, "dry_run_match") >= 1

\* C13: a tuple that discovery yields with disallowed = true never enters the
\* candidate list of its pass and is never the target chosen from it; the
\* scan logs skip_rules_disallow with its community and title, goes on with
\* the next tuple, and consumes the pass to its end.
C13_DisallowedNeverTargeted ==
    [][\A t \in Threads :
         LET w == thread[t]
             w2 == thread'[t]
         IN  /\ \A i \in 1..Len(w.events) :
                   LET e == w.events[i]
                   IN  (e.kind = "yield" /\ e.disallow) =>
                         /\ \A k \in 1..Len(w2.candidates) :
                               w2.candidates[k] # <<e.s, e.submission>>
                         /\ Len(obs'[t].targets) > Len(obs[t].targets) =>
                               obs'[t].targets[Len(obs'[t].targets)]
                                   # <<e.s, e.submission.id>>
                         /\ (w.pc = "scan" /\ w.idx <= i /\ i < w2.idx) =>
                               /\ i = w2.idx - 1
                               /\ w2.pc = "log_append"
                               /\ w2.ret = "scan"
                               /\ w2.entry = Entry("info", "skip_rules_disallow",
                                                   e.s, e.submission.title)
             /\ (w.pc = "scan" /\ w2.pc = "choose") => w2.idx > Len(w.events)
             /\ (w.pc \in LogPcs /\ w2.pc \notin LogPcs
                    /\ w.entry.event = "skip_rules_disallow") => w2.pc = "scan"
       ]_vars

\* C13 witness: a pass that yielded a disallowed tuple has ended with another
\* thread among its candidates and skip_rules_disallow in the log.
C13_Witness ==
    \E t \in Threads :
        /\ thread[t].pc = "choose"
        /\ thread[t].candidates # <<>>
        /\ \E i \in 1..Len(thread[t].events) : thread[t].events[i].disallow
        /\ \E i \in 1..Len(State.logs) :
             State.logs[i].event = "skip_rules_disallow"

\* The positions, in each community's search result, of the threads whose
\* lower-cased title holds one of the keywords of app.py:179-180.
Matching ==
    [s \in Subs |->
        {j \in 1..Len(Search(s)) :
            \E k \in KEYWORDS : Contains(Lower(Search(s)[j].title), k)}]

\* The positions of the log entries appended after the clock read mark: the
\* entries are in clock order, so they are among the last clock - mark ones.
Since(mark) ==
    LET n == Len(State.logs)
        lo == IF n - (clock - mark) < 0 THEN 1 ELSE n - (clock - mark) + 1
    IN  {i \in lo..n : State.logs[i].ts > mark}

\* C14: in a pass in which fetching a community's rules failed, the community
\* is still searched: each of its threads with a keyword in the title is
\* yielded, with disallowed = false and megathread_only = false, and no
\* skip_rules_disallow entry is logged for the community in that pass.
C14_RulesFailureAllows ==
    \A t \in Threads : \A s \in Subs :
        thread[t].env[s] = "rules_error" =>
            LET w == thread[t]
            IN  /\ \A j \in Matching[s] :
                          \E i \in 1..Len(w.events) :
                              /\ w.events[i].kind = "yield"
                              /\ w.events[i].s = s
                              /\ w.events[i].submission = Search(s)[j]
                /\ \A i \in 1..Len(w.events) :
                      (w.events[i].kind = "yield" /\ w.events[i].s = s) =>
                          /\ ~w.events[i].disallow
                          /\ ~w.events[i].mega_only
                /\ \A i \in Since(w.mark) :
                      State.logs[i].sub = s =>
                          State.logs[i].event # "skip_rules_disallow"

\* C14 witness: a pass in which the rule fetch of the community whose rules
\* prohibit referrals failed has ended with a thread of that community among
\* the candidates.
C14_Witness ==
    \E t \in Threads : \E s \in Subs :
        /\ thread[t].pc = "choose"
        /\ thread[t].env[s] = "rules_error"
        /\ \E k \in 1..Len(thread[t].candidates) : thread[t].candidates[k][1] = s
        /\ rules_disallow_referrals(s, "ok").disallow

\* C15: a start request with an empty or missing message, made while no run
\* is active and a credential is held, is accepted: it returns success and
\* launches the worker.
C15_EmptyMessageAccepted ==
    [][\A t \in Threads :
         (/\ thread[t].pc = "start_token"
          /\ thread'[t].pc # "start_token"
          /\ State.refresh_token # None
          /\ ~State.running
          /\ thread'[t].config.message = "") =>
            /\ thread'[t].pc = "init"
            /\ thread'[t].result = 200
       ]_vars

\* C16: for every configured rate above 0 and every jitter >= 0, a worker that
\* has resolved its identity and read its configuration has a cadence of
\* max(10, floor(3600 / posts_per_hour)), which is at least 10, and each delay
\* it draws for a cadence sleep lies between cadence and cadence + jitter.
C16_CadenceFloorAndJitter ==
    \A t \in Threads :
        LET w == thread[t]
            p == w.config.posts_per_hour
            c == w.cadence_seconds
            scaled == IF p.exp10 >= 0 THEN SECONDS_PER_HOUR
                      ELSE SECONDS_PER_HOUR * Pow10(-p.exp10)
            unit == IF p.exp10 >= 0 THEN p.digits * Pow10(p.exp10) ELSE p.digits
            authenticated == /\ Count(obs[t].logged, "auth_ok") = 1
                             /\ ~(w.pc \in LogPcs /\ w.ret = "config")
                             /\ w.pc # "config"
        IN  /\ authenticated =>
                  /\ c >= MIN_CADENCE
                  /\ \/ c * unit <= scaled /\ scaled < (c + 1) * unit
                     \/ c = MIN_CADENCE /\ scaled < (MIN_CADENCE + 1) * unit
            /\ (w.pc \in LogPcs /\ w.entry.event = "sleep") =>
                  /\ c <= w.slept
                  /\ w.slept <= c + w.config.jitter_seconds

\* The titles the platform holds that are megathread titles: lower-cased, they
\* contain "megathread", or both "weekly" and "thread".
MegaTitles ==
    {x \in UNION {{Search(s)[j].title : j \in 1..Len(Search(s))} : s \in Subs} :
        \/ Contains(Lower(x), "megathread")
        \/ Contains(Lower(x), "weekly") /\ Contains(Lower(x), "thread")}

\* C17: a yielded thread that is not disallowed passes the megathread filter
\* exactly when its title is a megathread title or both the run's
\* only_megathreads flag and its community's megathread-only flag are false.
\* One that does not pass never enters the candidate list, is never the
\* target chosen from the pass, and is dropped with a skip_not_megathread
\* entry; one that passes is not.
C17_MegathreadFilter ==
    [][\A t \in Threads :
         LET w == thread[t]
             w2 == thread'[t]
         IN  \A i \in 1..Len(w.events) :
               LET e == w.events[i]
                   passes_filter ==
                       \/ e.submission.title \in MegaTitles
                       \/ ~w.config.only_megathreads /\ ~e.mega_only
                   skipped == /\ w2.pc = "log_append"
                              /\ w2.ret = "scan"
                              /\ w2.entry = Entry("info", "skip_not_megathread",
                                                  e.s, e.submission.title)
               IN  (e.kind = "yield" /\ ~e.disallow) =>
                     /\ ~passes_filter =>
                           /\ \A k \in 1..Len(w2.candidates) :
                                 w2.candidates[k] # <<e.s, e.submission>>
                           /\ Len(obs'[t].targets) > Len(obs[t].targets) =>
                                 obs'[t].targets[Len(obs'[t].targets)]
                                     # <<e.s, e.submission.id>>
                     /\ (w.pc = "scan" /\ w.idx <= i /\ i < w2.idx) =>
                           IF passes_filter
                           THEN ~(i = w2.idx - 1 /\ skipped)
                           ELSE i = w2.idx - 1 /\ skipped
       ]_vars

\* C17 witness: the worker logged skip_not_megathread in one pass and, in a
\* pass where neither flag was set, chose a thread whose title is not a
\* megathread title.
C17_Witness ==
    \E t \in Threads :
        /\ Len(obs[t].targets) >= 1
        /\ thread[t].submission.title \notin MegaTitles
        /\ Count(obs[t].logged, "skip_not_megathread") >= 1

\* C18: when a pass ends with no candidate, the worker submits no reply and
\* logs nothing, changes no counter and no field of the run state, sleeps 5
\* seconds and is back at the top of the loop, where the stop flag and then
\* the end time are tested before any new discovery pass.
C18_EmptyPassBacksOff ==
    [][\A t \in Threads :
         LET w == thread[t]
             w2 == thread'[t]
         IN  /\ (w.pc = "choose" /\ w.candidates = <<>> /\ w2.pc # "choose") =>
                    /\ w2.pc = "loop"
                    /\ w2.slept = BACKOFF_SECONDS
                    /\ w2.posted = w.posted
                    /\ w2.per_sub_counts = w.per_sub_counts
                    /\ w2.seen_targets = w.seen_targets
                    /\ State' = State
                    /\ obs' = obs
                    /\ clock' = clock
             /\ (w.pc = "loop" /\ w2.pc # "loop") =>
                    IF State.stop_requested
                    THEN /\ w2.pc = "log_append"
                         /\ w2.entry.event = "stop_requested"
                         /\ w2.ret = "finally"
                    ELSE \/ w2.pc = "discover"
                         \/ /\ w.config.end_at
                            /\ w2.pc = "log_append"
                            /\ w2.entry.event = "end_time_reached"
                            /\ w2.ret = "finally"
             /\ (w.pc # "discover" /\ w2.pc = "discover") => w.pc = "loop"
       ]_vars

\* C18 witness: the worker is at the top of its loop after a backoff.
C18_Witness ==
    \E t \in Threads :
        /\ thread[t].pc = "loop"
        /\ thread[t].slept = BACKOFF_SECONDS

\* C19: when a discovery pass has ended, every community whose rule fetch or
\* thread search failed in it has a warn-level entry logged in that pass, and
\* every community whose calls succeeded has had its keyword-matching threads
\* yielded.
C19_FailureWarnsAndContinues ==
    \A t \in Threads :
        thread[t].pc = "choose" =>
            \A s \in Subs :
                LET w == thread[t]
                IN  /\ w.env[s] = "ok" =>
                          \A j \in Matching[s] :
                              \E i \in 1..Len(w.events) :
                                  /\ w.events[i].kind = "yield"
                                  /\ w.events[i].s = s
                                  /\ w.events[i].submission = Search(s)[j]
                    /\ w.env[s] \in {"rules_error", "search_error"} =>
                          \E i \in Since(w.mark) :
                              /\ State.logs[i].level = "warn"
                              /\ State.logs[i].sub = s

RECURSIVE SumOver(_, _)
SumOver(f, S) ==
    IF S = {} THEN 0
    ELSE LET x == CHOOSE y \in S : TRUE IN f[x] + SumOver(f, S \ {x})

\* C20: in every state of a run, once the worker has reset the summary, the
\* summary value of each community is the number of comment_posted entries
\* the worker has logged for it, and the summary values add up to the
\* worker's posted count.
C20_SummaryMatchesLog ==
    \A t \in Threads :
        (Inside(t) /\ thread[t].pc \notin {"clear_stop", "reset_summary"}) =>
            /\ \A s \in Subs :
                  State.summary[s] =
                      Cardinality({i \in Since(0) :
                                      /\ State.logs[i].event = "comment_posted"
                                      /\ State.logs[i].sub = s})
            /\ SumOver(State.summary, Subs) = thread[t].posted

\* C21: once stop has been requested while a worker is inside its main loop,
\* the worker submits at most one further reply: the flag is read at the top
\* of each iteration and an iteration under way is not interrupted.
C21_AtMostOneReplyAfterStop ==
    \A t \in Threads : obs[t].late_replies <= 1

====
